---- MODULE Spec2Model ----
(***************************************************************************)
(* Decision core of the Sonic AI Mod bot: message classification           *)
(* (ModerationHandler.check_message), strike escalation                    *)
(* (ModerationHandler.handle_violation), raid detection                    *)
(* (ModerationHandler.check_raid), XP and levels (XPHandler) and the two   *)
(* event handlers of SonicModBot that drive them (message_handler and      *)
(* chat_action_handler).                                                   *)
(*                                                                         *)
(* Conventions.  A text is a sequence of one-character strings.  A         *)
(* datetime is a number of seconds since the start of the process; a       *)
(* missing datetime (Python None) is NoTime, a missing text (Python None)  *)
(* is NoText, any other missing object is the record None.  A Python dict  *)
(* is a function whose DOMAIN is the set of its keys.                      *)
(***************************************************************************)
EXTENDS Integers, Sequences, FiniteSets, TLC

None == [none |-> TRUE]
NoTime == -1
NoText == << "None" >>

Min(a, b) == IF a <= b THEN a ELSE b

\* dict[k] = v
Put(d, k, v) == [x \in (DOMAIN d) \cup {k} |-> IF x = k THEN v ELSE d[x]]

EmptyDict == [x \in {} |-> 0]

(***************************************************************************)
(* Texts                                                                   *)
(***************************************************************************)
UpperChars ==
  <<"A","B","C","D","E","F","G","H","I","J","K","L","M","N","O","P","Q","R","S","T","U","V","W","X","Y","Z">>
LowerChars ==
  <<"a","b","c","d","e","f","g","h","i","j","k","l","m","n","o","p","q","r","s","t","u","v","w","x","y","z">>

\* str.lower() on one character: the upper-case letters and their lower-case forms
LowerMap ==
  [ c \in { UpperChars[i] : i \in 1..Len(UpperChars) } |->
      LowerChars[CHOOSE i \in 1..Len(UpperChars) : UpperChars[i] = c] ]

\* variant: lower() that leaves every character as it is
LowerCharIdentity(c) == c

LowerChar(c) == IF c \in DOMAIN LowerMap THEN LowerMap[c] ELSE c

\* str.lower()
Lower(text) == [i \in 1..Len(text) |-> LowerChar(text[i])]

\* text[:n]
Prefix(text, n) == SubSeq(text, 1, Min(n, Len(text)))

\* kw in text
Contains(text, kw) ==
  \E i \in 1..(Len(text) - Len(kw) + 1) : SubSeq(text, i, i + Len(kw) - 1) = kw

\* the characters \S does not match
Whitespace == {" ", "\t", "\n", "\r"}

SPAM_KEYWORDS ==
  << <<"b","u","y"," ","n","o","w">>,
     <<"c","l","i","c","k"," ","h","e","r","e">>,
     <<"f","r","e","e"," ","m","o","n","e","y">>,
     <<"g","u","a","r","a","n","t","e","e","d"," ","i","n","c","o","m","e">>,
     <<"m","a","k","e"," ","m","o","n","e","y"," ","f","a","s","t">>,
     <<"l","i","m","i","t","e","d"," ","t","i","m","e"," ","o","f","f","e","r">>,
     <<"a","c","t"," ","n","o","w">> >>

SCAM_KEYWORDS ==
  << <<"w","a","l","l","e","t"," ","c","o","n","n","e","c","t">>,
     <<"v","e","r","i","f","y"," ","y","o","u","r"," ","w","a","l","l","e","t">>,
     <<"a","i","r","d","r","o","p"," ","c","l","a","i","m">>,
     <<"d","o","u","b","l","e"," ","y","o","u","r">>,
     <<"s","e","n","d"," ","c","r","y","p","t","o">>,
     <<"w","i","t","h","d","r","a","w"," ","n","o","w">> >>

HttpPrefix == <<"h","t","t","p",":","/","/">>
HttpsPrefix == <<"h","t","t","p","s",":","/","/">>
TmePlus == <<"t",".","m","e","/","+">>
TelegramMePlus == <<"t","e","l","e","g","r","a","m",".","m","e","/","+">>

\* prefix followed by at least one non-whitespace character, anywhere in text
UrlAfter(text, prefix) ==
  \E i \in 1..(Len(text) - Len(prefix)) :
     /\ SubSeq(text, i, i + Len(prefix) - 1) = prefix
     /\ text[i + Len(prefix)] \notin Whitespace

\* LINK_PATTERN.search(text):  https?://\S+|t\.me/\+|telegram\.me/\+
LINK_PATTERN(text) ==
  \/ UrlAfter(text, HttpPrefix)
  \/ UrlAfter(text, HttpsPrefix)
  \/ Contains(text, TmePlus)
  \/ Contains(text, TelegramMePlus)

\* the least number of equal consecutive characters REPEAT_PATTERN asks for
RepeatRun == 6

\* REPEAT_PATTERN.search(text):  (.)\1{5,}   ("." matches no newline)
REPEAT_PATTERN(text) ==
  \E i \in 1..(Len(text) - RepeatRun + 1) :
     /\ text[i] # "\n"
     /\ \A j \in 1..(RepeatRun - 1) : text[i + j] = text[i]

(***************************************************************************)
(* XPHandler: constants and pure functions                                 *)
(***************************************************************************)
XP_PER_MESSAGE == 1
XP_PER_REACTION == 1
XP_PER_INVITE == 10
XP_PER_SUPPORT_TICKET == 5
\* chat_action_handler: self.xp.add_xp(user.id, 10, "join")
XP_PER_JOIN == 10

\* cumulative XP thresholds, as sorted(LEVEL_THRESHOLDS.items()) yields them
LEVEL_THRESHOLDS ==
  << 0, 100, 250, 500, 1000, 1750, 2750, 4000, 5500, 7500,
     10000, 13000, 16500, 20500, 25000 >>

LEVEL_TITLES ==
  << "New Member", "Member", "Regular", "Contributor", "Veteran", "Elite",
     "Champion", "Legend", "Hero", "Superstar", "Master", "Grandmaster",
     "Mythic", "Eternal", "GOAT" >>

cooldown_seconds == 60

\* timedelta.seconds: the seconds component of a normalized timedelta
\* (days, seconds, microseconds), 0 <= seconds < 86400
SecondsPerDay == 86400
TimedeltaSeconds(d) == d % SecondsPerDay

\* the loop of calculate_level from position i of the sorted thresholds on
RECURSIVE LevelLoop(_, _, _)
LevelLoop(i, level, total_xp) ==
  IF i > Len(LEVEL_THRESHOLDS) THEN level
  ELSE IF total_xp >= LEVEL_THRESHOLDS[i]
       THEN LevelLoop(i + 1, i, total_xp)
       ELSE level

\* variant: a level is reached only above its threshold
calculate_level_above(total_xp) == LevelLoop(1, 1, total_xp - 1)

calculate_level(total_xp) == LevelLoop(1, 1, total_xp)

Infinite == [finite |-> FALSE, value |-> 0]
Finite(n) == [finite |-> TRUE, value |-> n]

\* LEVEL_THRESHOLDS.get(level, 0)
ThresholdGet(level) ==
  IF level \in 1..Len(LEVEL_THRESHOLDS) THEN LEVEL_THRESHOLDS[level] ELSE 0

\* variant: the threshold of the current level instead of the distance to the next
xp_for_next_level_absolute(current_level) ==
  IF (current_level + 1) \notin 1..Len(LEVEL_THRESHOLDS)
  THEN Infinite
  ELSE Finite(ThresholdGet(current_level))

xp_for_next_level(current_level) ==
  IF (current_level + 1) \notin 1..Len(LEVEL_THRESHOLDS)
  THEN Infinite
  ELSE Finite(LEVEL_THRESHOLDS[current_level + 1] - ThresholdGet(current_level))

\* LEVEL_TITLES.get(level, "Member")
TitleGet(level) ==
  IF level \in 1..Len(LEVEL_TITLES) THEN LEVEL_TITLES[level] ELSE "Member"

\* dict.get(key, default)
Get(d, k, default) == IF k \in DOMAIN d THEN d[k] ELSE default

\* XPHandler.__init__; keys is the insertion order of user_totals
XPHandlerInit ==
  [ user_xp |-> EmptyDict, user_totals |-> EmptyDict, keys |-> <<>>,
    user_levels |-> EmptyDict, message_cooldowns |-> EmptyDict ]

\* variant: the sort is ascending
InsertSortedAscending(sorted, item) ==
  LET before == SelectSeq(sorted, LAMBDA other : other[2] <= item[2])
      after == SelectSeq(sorted, LAMBDA other : other[2] > item[2])
  IN before \o << item >> \o after

\* variant: an unstable sort, the item goes in front of the items of the same total
InsertSortedTiesFirst(sorted, item) ==
  LET before == SelectSeq(sorted, LAMBDA other : other[2] > item[2])
      after == SelectSeq(sorted, LAMBDA other : other[2] <= item[2])
  IN before \o << item >> \o after

\* one step of sorted(..., key=lambda x: x[1], reverse=True), a stable sort:
\* the item goes behind every item whose total is not smaller
InsertSorted(sorted, item) ==
  LET before == SelectSeq(sorted, LAMBDA other : other[2] >= item[2])
      after == SelectSeq(sorted, LAMBDA other : other[2] < item[2])
  IN before \o << item >> \o after

\* sorted(user_totals.items(), key=lambda x: x[1], reverse=True) over the
\* first n items of the dict
RECURSIVE SortedItems(_, _)
SortedItems(x, n) ==
  IF n = 0 THEN <<>>
  ELSE InsertSorted(SortedItems(x, n - 1),
                    << x.keys[n], x.user_totals[x.keys[n]] >>)

\* XPHandler.get_leaderboard, for a limit >= 0
get_leaderboard(x, limit) ==
  LET top == Prefix(SortedItems(x, Len(x.keys)), limit) IN
  [ rank \in 1..Len(top) |->
      LET level == Get(x.user_levels, top[rank][1], 1) IN
      [ rank |-> rank, user_id |-> top[rank][1], xp |-> top[rank][2],
        level |-> level, title |-> TitleGet(level) ] ]

\* variant: the cooldown gates every action type
InCooldownAll(x, user_id, action_type, t) ==
  /\ user_id \in DOMAIN x.message_cooldowns
  /\ TimedeltaSeconds(t - x.message_cooldowns[user_id]) < cooldown_seconds

\* the cooldown test of add_xp: TRUE when the call returns None at once
InCooldown(x, user_id, action_type, t) ==
  /\ action_type = "message"
  /\ user_id \in DOMAIN x.message_cooldowns
  /\ TimedeltaSeconds(t - x.message_cooldowns[user_id]) < cooldown_seconds

\* variant: the level computed from the amount of the reward alone
NewLevelOfReward(old_total, amount) == calculate_level(amount)

\* variant: the level computed before the amount is added
NewLevelStale(old_total, amount) == calculate_level(old_total)

\* the level stored by an accepted add_xp
NewLevel(old_total, amount) == calculate_level(old_total + amount)

\* variant: a level-up is also reported when the level stays the same
LevelUpResultAtLeast(old_level, new_level) ==
  IF new_level >= old_level
  THEN [ old_level |-> old_level, new_level |-> new_level,
         title |-> TitleGet(new_level),
         xp_needed |-> xp_for_next_level(new_level) ]
  ELSE None

\* what add_xp returns once the entry is stored
LevelUpResult(old_level, new_level) ==
  IF new_level > old_level
  THEN [ old_level |-> old_level, new_level |-> new_level,
         title |-> TitleGet(new_level),
         xp_needed |-> xp_for_next_level(new_level) ]
  ELSE None

\* variant: add_xp that stamps the cooldown before it tests it, so that a
\* rejected message reward moves the cooldown timestamp
add_xp_stamps(x, user_id, amount, action_type, message_preview, t) ==
  IF InCooldown(x, user_id, action_type, t)
  THEN [ state |-> [x EXCEPT !.message_cooldowns = Put(@, user_id, t)],
         accepted |-> FALSE, result |-> None ]
  ELSE
    LET old_total == Get(x.user_totals, user_id, 0)
        old_level == Get(x.user_levels, user_id, 1)
        new_level == NewLevel(old_total, amount)
    IN [ state |->
           [ user_xp |-> Put(x.user_xp, user_id,
                             Append(Get(x.user_xp, user_id, <<>>),
                                    [ amount |-> amount, action_type |-> action_type,
                                      timestamp |-> t,
                                      message_preview |-> Prefix(message_preview, 100) ])),
             user_totals |-> Put(x.user_totals, user_id, old_total + amount),
             keys |-> IF user_id \in DOMAIN x.user_totals
                      THEN x.keys ELSE Append(x.keys, user_id),
             user_levels |-> Put(x.user_levels, user_id, new_level),
             message_cooldowns |-> IF action_type = "message"
                                   THEN Put(x.message_cooldowns, user_id, t)
                                   ELSE x.message_cooldowns ],
         accepted |-> TRUE,
         result |-> LevelUpResult(old_level, new_level) ]

\* variant: add_xp that stores the entry before it tests the cooldown, so that
\* a rejected message reward leaves an entry in the history
add_xp_logs_rejected(x, user_id, amount, action_type, message_preview, t) ==
  LET entry == [ amount |-> amount, action_type |-> action_type,
                 timestamp |-> t,
                 message_preview |-> Prefix(message_preview, 100) ]
      history == Put(x.user_xp, user_id,
                     Append(Get(x.user_xp, user_id, <<>>), entry))
  IN
  IF InCooldown(x, user_id, action_type, t)
  THEN [ state |-> [x EXCEPT !.user_xp = history],
         accepted |-> FALSE, result |-> None ]
  ELSE
    LET old_total == Get(x.user_totals, user_id, 0)
        old_level == Get(x.user_levels, user_id, 1)
        new_level == NewLevel(old_total, amount)
    IN [ state |->
           [ user_xp |-> history,
             user_totals |-> Put(x.user_totals, user_id, old_total + amount),
             keys |-> IF user_id \in DOMAIN x.user_totals
                      THEN x.keys ELSE Append(x.keys, user_id),
             user_levels |-> Put(x.user_levels, user_id, new_level),
             message_cooldowns |-> IF action_type = "message"
                                   THEN Put(x.message_cooldowns, user_id, t)
                                   ELSE x.message_cooldowns ],
         accepted |-> TRUE,
         result |-> LevelUpResult(old_level, new_level) ]

\* XPHandler.add_xp on handler state x at time t: the new state and the result
add_xp(x, user_id, amount, action_type, message_preview, t) ==
  IF InCooldown(x, user_id, action_type, t)
  THEN [ state |-> x, accepted |-> FALSE, result |-> None ]
  ELSE
    LET cooldowns == IF action_type = "message"
                     THEN Put(x.message_cooldowns, user_id, t)
                     ELSE x.message_cooldowns
        entry == [ amount |-> amount, action_type |-> action_type,
                   timestamp |-> t,
                   message_preview |-> Prefix(message_preview, 100) ]
        old_total == Get(x.user_totals, user_id, 0)
        old_level == Get(x.user_levels, user_id, 1)
        new_level == NewLevel(old_total, amount)
    IN [ state |->
           [ user_xp |-> Put(x.user_xp, user_id,
                             Append(Get(x.user_xp, user_id, <<>>), entry)),
             user_totals |-> Put(x.user_totals, user_id, old_total + amount),
             keys |-> IF user_id \in DOMAIN x.user_totals
                      THEN x.keys ELSE Append(x.keys, user_id),
             user_levels |-> Put(x.user_levels, user_id, new_level),
             message_cooldowns |-> cooldowns ],
         accepted |-> TRUE,
         result |-> LevelUpResult(old_level, new_level) ]

(***************************************************************************)
(* ModerationHandler                                                       *)
(***************************************************************************)
\* Config defaults
DefaultStrikeThreshold == 3
auto_mute_duration == 3600
raid_threshold == 10
\* timedelta(days=7) and timedelta(minutes=1), in seconds
StrikeLifetime == 604800
RaidWindow == 60
\* the level from which check_message lets links through
LinkLevel == 5

\* ModerationHandler.__init__ with the given Config fields
ModerationHandlerInit(threshold, spam_filter, anti_raid) ==
  [ user_records |-> EmptyDict, violation_log |-> <<>>,
    strike_threshold |-> threshold, mute_duration |-> auto_mute_duration,
    spam_filter_enabled |-> spam_filter, anti_raid_enabled |-> anti_raid,
    join_timestamps |-> <<>>, raid_threshold |-> raid_threshold,
    word_blacklist |-> {}, word_whitelist |-> {} ]

\* UserRecord(user_id=user_id), created at time t
UserRecord(user_id, t) ==
  [ user_id |-> user_id, first_seen |-> t, warnings |-> 0, strikes |-> <<>>,
    xp |-> 0, level |-> 1, is_banned |-> FALSE, is_muted |-> FALSE,
    mute_expires |-> NoTime, note_count |-> 0 ]

Violation(user_id, violation_type, t, text, severity) ==
  [ user_id |-> user_id, violation_type |-> violation_type, timestamp |-> t,
    message_preview |-> Prefix(text, 50), severity |-> severity ]

\* any(keyword in text for keyword in keywords)
AnyKeyword(keywords, text) ==
  \E i \in 1..Len(keywords) : Contains(text, keywords[i])

\* the link rule of check_message: a link, and no record or a record below LinkLevel
LinkViolation(m, user_id, text) ==
  /\ LINK_PATTERN(text)
  /\ \/ user_id \notin DOMAIN m.user_records
     \/ m.user_records[user_id].level < LinkLevel

\* ModerationHandler.check_message; message_text is NoText or a text
check_message(m, user_id, message_text, t) ==
  IF message_text = NoText \/ message_text = <<>> THEN None
  ELSE
    LET text == Lower(message_text) IN
    IF AnyKeyword(SPAM_KEYWORDS, text)
      THEN Violation(user_id, "spam", t, message_text, 1)
    ELSE IF AnyKeyword(SCAM_KEYWORDS, text)
      THEN Violation(user_id, "scam", t, message_text, 3)
    ELSE IF LinkViolation(m, user_id, text)
      THEN Violation(user_id, "advertising", t, message_text, 1)
    ELSE IF REPEAT_PATTERN(text)
      THEN Violation(user_id, "repetitive", t, message_text, 1)
    ELSE IF \E word \in m.word_blacklist : Contains(text, word)
      THEN Violation(user_id, "explicit", t, message_text, 2)
    ELSE None

\* variant: only the strikes that have not expired at time t are counted
ActiveStrikes(record, t) ==
  Cardinality({ i \in 1..Len(record.strikes) : record.strikes[i].expires_at > t })

\* total_strikes = len(record.strikes)
TotalStrikes(record, t) == Len(record.strikes)

\* variant: the first strike of a user below the ban limit is a warning
EscalationWarnFirst(severity, total_strikes, threshold) ==
  IF severity >= 3 \/ total_strikes >= threshold THEN "ban"
  ELSE IF total_strikes > 1 /\ total_strikes >= threshold \div 2 THEN "mute"
  ELSE "warn"

\* variant: the ban needs the strike count to equal the threshold
EscalationExact(severity, total_strikes, threshold) ==
  IF severity >= 3 \/ total_strikes = threshold THEN "ban"
  ELSE IF total_strikes >= threshold \div 2 THEN "mute"
  ELSE "warn"

\* variant: the mute limit rounded up instead of down
EscalationRoundUp(severity, total_strikes, threshold) ==
  IF severity >= 3 \/ total_strikes >= threshold THEN "ban"
  ELSE IF total_strikes >= (threshold + 1) \div 2 THEN "mute"
  ELSE "warn"

\* the branch handle_violation takes for a violation that is strike number total_strikes
Escalation(severity, total_strikes, threshold) ==
  IF severity >= 3 \/ total_strikes >= threshold THEN "ban"
  ELSE IF total_strikes >= threshold \div 2 THEN "mute"
  ELSE "warn"

\* the platform calls a branch awaits before it updates the record
BranchCalls(branch) ==
  IF branch = "warn" THEN {"reply"} ELSE {"edit_permissions", "reply"}

\* the branch awaits a call that raises
Raises(branch, fail) ==
  IF fail \in BranchCalls(branch) THEN "raised" ELSE "none"

\* variant: only the reply is inside the try block
GuardedCallsReplyOnly == { "reply" }

\* the awaited calls inside handle_violation's try block, whose exceptions
\* the except clause catches
GuardedCalls == { "edit_permissions", "reply" }

\* the exception of the raising call leaves handle_violation
Propagates(branch, fail) ==
  Raises(branch, fail) = "raised" /\ fail \notin GuardedCalls

\* variant: a ban clears the strikes of the record
AfterBranchClearing(record, branch, fail, t, mute_duration) ==
  IF Raises(branch, fail) = "raised" THEN record
  ELSE IF branch = "ban" THEN [record EXCEPT !.is_banned = TRUE, !.strikes = <<>>]
  ELSE IF branch = "mute"
       THEN [record EXCEPT !.is_muted = TRUE, !.mute_expires = t + mute_duration]
  ELSE [record EXCEPT !.warnings = @ + 1]

\* the record after the branch: fail names the awaited call that raises ("none": no call raises)
AfterBranch(record, branch, fail, t, mute_duration) ==
  IF Raises(branch, fail) = "raised" THEN record
  ELSE IF branch = "ban" THEN [record EXCEPT !.is_banned = TRUE]
  ELSE IF branch = "mute"
       THEN [record EXCEPT !.is_muted = TRUE, !.mute_expires = t + mute_duration]
  ELSE [record EXCEPT !.warnings = @ + 1]

\* ModerationHandler.handle_violation at time t: the new state and the branch taken
handle_violation(m, violation, fail, t) ==
  LET user_id == violation.user_id
      record == Get(m.user_records, user_id, UserRecord(user_id, t))
      strike == [ user_id |-> user_id, violation |-> violation,
                  expires_at |-> t + StrikeLifetime ]
      struck == [record EXCEPT !.strikes = Append(@, strike)]
      total_strikes == TotalStrikes(struck, t)
      branch == Escalation(violation.severity, total_strikes, m.strike_threshold)
  IN [ state |->
         [m EXCEPT !.user_records =
                      Put(@, user_id,
                          AfterBranch(struck, branch, fail, t, m.mute_duration)),
                   !.violation_log = Append(@, violation)],
       branch |-> branch,
       strike_count |-> total_strikes,
       propagated |-> Propagates(branch, fail) ]

\* handle_violation up to its first await: the record is fetched or created,
\* the strike and the log entry are appended and the branch is chosen
handle_violation_begin(m, violation, t) ==
  LET user_id == violation.user_id
      record == Get(m.user_records, user_id, UserRecord(user_id, t))
      strike == [ user_id |-> user_id, violation |-> violation,
                  expires_at |-> t + StrikeLifetime ]
      struck == [record EXCEPT !.strikes = Append(@, strike)]
      total_strikes == TotalStrikes(struck, t)
  IN [ state |-> [m EXCEPT !.user_records = Put(@, user_id, struck),
                           !.violation_log = Append(@, violation)],
       branch |-> Escalation(violation.severity, total_strikes, m.strike_threshold),
       strike_count |-> total_strikes ]

\* handle_violation from its first await on, for the handler that chose the
\* branch at time started: the awaited calls return or raise, then the
\* record as it is by then is updated
handle_violation_resume(m, user_id, branch, fail, started) ==
  [m EXCEPT !.user_records =
              Put(@, user_id,
                  AfterBranch(m.user_records[user_id], branch, fail, started,
                              m.mute_duration))]

\* [t for t in join_timestamps if t > cutoff]
RECURSIVE Newer(_, _)
Newer(timestamps, cutoff) ==
  IF timestamps = <<>> THEN <<>>
  ELSE IF Head(timestamps) > cutoff
       THEN <<Head(timestamps)>> \o Newer(Tail(timestamps), cutoff)
       ELSE Newer(Tail(timestamps), cutoff)

\* variant: check_raid that drops the old timestamps before it appends the new one
\* and reports a raid only above the threshold
check_raid_above(m, t) ==
  IF ~m.anti_raid_enabled THEN [ state |-> m, result |-> FALSE ]
  ELSE
    LET kept == Append(Newer(m.join_timestamps, t - RaidWindow), t)
    IN [ state |-> [m EXCEPT !.join_timestamps = kept],
         result |-> Len(kept) > m.raid_threshold ]

\* variant: check_raid that does not look at anti_raid_enabled
check_raid_unconditional(m, t) ==
  LET kept == Newer(Append(m.join_timestamps, t), t - RaidWindow)
  IN [ state |-> [m EXCEPT !.join_timestamps = kept],
       result |-> Len(kept) >= m.raid_threshold ]

\* ModerationHandler.check_raid at time t: the new state and the result
check_raid(m, t) ==
  IF ~m.anti_raid_enabled THEN [ state |-> m, result |-> FALSE ]
  ELSE
    LET kept == Newer(Append(m.join_timestamps, t), t - RaidWindow)
    IN [ state |-> [m EXCEPT !.join_timestamps = kept],
         result |-> Len(kept) >= m.raid_threshold ]

\* add_blacklist_word / remove_blacklist_word
add_blacklist_word(m, word) == [m EXCEPT !.word_blacklist = @ \cup {Lower(word)}]
remove_blacklist_word(m, word) == [m EXCEPT !.word_blacklist = @ \ {Lower(word)}]

\* del d[k]
Drop(d, k) == [ x \in DOMAIN d \ {k} |-> d[x] ]

(***************************************************************************)
(* TicketHandler                                                           *)
(***************************************************************************)
\* TicketConfig defaults
max_open_tickets == 3
cooldown_minutes == 60
\* the modulus of the user id in a ticket id
TicketModulus == 10000

\* TicketHandler.__init__; objects holds the Ticket objects in the order of
\* their creation, and user_tickets and open_tickets refer to them by place
TicketHandlerInit ==
  [ user_tickets |-> EmptyDict, open_tickets |-> EmptyDict,
    user_last_ticket |-> EmptyDict, objects |-> <<>> ]

\* f"TICKET-{datetime.now().strftime('%Y%m%d%H%M%S')}-{user_id % 10000}":
\* the second of the call and the user id modulo 10000
TicketId(user_id, t) == << t, user_id % TicketModulus >>

\* the open tickets in a user's list
UserOpen(k, user_id) ==
  Len(SelectSeq(Get(k.user_tickets, user_id, <<>>),
                LAMBDA ref : k.objects[ref].status = "open"))

\* the cooldown test of create_ticket
TicketCooldown(k, user_id, t) ==
  /\ user_id \in DOMAIN k.user_last_ticket
  /\ TimedeltaSeconds(t - k.user_last_ticket[user_id]) < cooldown_minutes * 60

\* TicketHandler.create_ticket at time t: the new state and the ticket returned
create_ticket(k, user_id, chat_id, subject, description, t) ==
  IF TicketCooldown(k, user_id, t) THEN [ state |-> k, result |-> None ]
  ELSE IF UserOpen(k, user_id) >= max_open_tickets
  THEN [ state |-> k, result |-> None ]
  ELSE
    LET ticket_id == TicketId(user_id, t)
        ticket == [ id |-> ticket_id, user_id |-> user_id, chat_id |-> chat_id,
                    created_at |-> t, status |-> "open", subject |-> subject,
                    description |-> description ]
        ref == Len(k.objects) + 1
    IN [ state |->
           [ user_tickets |-> Put(k.user_tickets, user_id,
                                  Append(Get(k.user_tickets, user_id, <<>>), ref)),
             open_tickets |-> Put(k.open_tickets, ticket_id, ref),
             user_last_ticket |-> Put(k.user_last_ticket, user_id, t),
             objects |-> Append(k.objects, ticket) ],
         result |-> ticket ]

\* TicketHandler.close_ticket: the new state and the value returned
close_ticket(k, ticket_id) ==
  IF ticket_id \notin DOMAIN k.open_tickets
  THEN [ state |-> k, result |-> FALSE ]
  ELSE [ state |->
           [k EXCEPT !.objects[k.open_tickets[ticket_id]].status = "closed",
                     !.open_tickets = Drop(@, ticket_id)],
         result |-> TRUE ]

(***************************************************************************)
(* State                                                                   *)
(***************************************************************************)
VARIABLES
  now,           \* what datetime.now() returns
  ticks,         \* how often the clock has advanced
  moderation,    \* SonicModBot.moderation, the ModerationHandler
  xp,            \* SonicModBot.xp, the XPHandler
  action_log,    \* the escalation branches taken so far, oldest first
  join_history,  \* every timestamp check_raid has appended, oldest first
  join_chats,    \* the chat of each of those joins, in the same order
  inflight,      \* the message handlers suspended at an await, by event
  tickets,       \* SonicModBot.tickets, the TicketHandler
  last           \* the handler or method that ran last, its input and outcome

vars ==
  << now, ticks, moderation, xp, action_log, join_history, join_chats, inflight,
     tickets, last >>

\* the record kept of the last call: the handler or method, the user, the
\* message text, the XP action type, the path taken, the value returned, the
\* escalation branch, and whether an awaited platform call raised
Call(op, user, input, kind, outcome, result, branch, raised) ==
  [ op |-> op, user |-> user, input |-> input, kind |-> kind,
    outcome |-> outcome, result |-> result, branch |-> branch,
    raised |-> raised ]

(***************************************************************************)
(* Operations                                                              *)
(***************************************************************************)
\* the clock advances by d seconds
Tick(d) ==
  /\ now' = now + d
  /\ ticks' = ticks + 1
  /\ last' = Call("tick", 0, NoText, "none", "tick", None, "none", FALSE)
  /\ UNCHANGED << moderation, xp, action_log, join_history, join_chats, inflight, tickets >>

\* variant: a muted user is skipped only until the mute expires
SilencedUntilExpiry(m, user_id) ==
  /\ user_id \in DOMAIN m.user_records
  /\ \/ m.user_records[user_id].is_banned
     \/ /\ m.user_records[user_id].is_muted
        /\ now < m.user_records[user_id].mute_expires

\* variant: only muted users are skipped
SilencedMutedOnly(m, user_id) ==
  /\ user_id \in DOMAIN m.user_records
  /\ m.user_records[user_id].is_muted

\* variant: only banned users are skipped
SilencedBannedOnly(m, user_id) ==
  /\ user_id \in DOMAIN m.user_records
  /\ m.user_records[user_id].is_banned

\* message_handler's test "user_record and (is_banned or is_muted)"
Silenced(m, user_id) ==
  /\ user_id \in DOMAIN m.user_records
  /\ m.user_records[user_id].is_banned \/ m.user_records[user_id].is_muted

\* event.text[:50] if event.text else ""
EventPreview(message_text) ==
  IF message_text = NoText \/ message_text = <<>> THEN <<>>
  ELSE Prefix(message_text, 50)

\* the awaited platform call of handle_violation that raises; "none": no call raises
PlatformFailures == { "none", "edit_permissions", "reply" }

\* SonicModBot.message_handler on a NewMessage event.
\* (The audit log entries and the level-up reply change nothing modelled here.)
message_handler(user_id, chat_id, message_text, is_private) ==
  LET violation == check_message(moderation, user_id, message_text, now)
      Returned(outcome) ==
        Call("message_handler", user_id, message_text, "none", outcome, None,
             "none", FALSE)
  IN
  IF is_private
  THEN /\ last' = Returned("private")
       /\ UNCHANGED << now, ticks, moderation, xp, action_log, join_history, join_chats, inflight, tickets >>
  ELSE IF Silenced(moderation, user_id)
  THEN /\ last' = Returned("silenced")
       /\ UNCHANGED << now, ticks, moderation, xp, action_log, join_history, join_chats, inflight, tickets >>
  ELSE IF moderation.spam_filter_enabled /\ violation # None
  THEN \E fail \in PlatformFailures :
       LET h == handle_violation(moderation, violation, fail, now) IN
       /\ moderation' = h.state
       /\ action_log' = Append(action_log,
                               [ kind |-> h.branch, user_id |-> user_id,
                                 strike_count |-> h.strike_count,
                                 severity |-> violation.severity ])
       /\ last' = Call("message_handler", user_id, message_text, "none",
                       IF h.propagated THEN "error" ELSE "violation",
                       violation, h.branch, Raises(h.branch, fail))
       /\ UNCHANGED << now, ticks, xp, join_history, join_chats, inflight, tickets >>
  ELSE LET r == add_xp(xp, user_id, XP_PER_MESSAGE, "message",
                       EventPreview(message_text), now) IN
       /\ xp' = r.state
       /\ last' = Call("message_handler", user_id, message_text, "message",
                       IF r.accepted THEN "rewarded" ELSE "cooldown",
                       r.result, "none", FALSE)
       /\ UNCHANGED << now, ticks, moderation, action_log, join_history, join_chats, inflight, tickets >>

\* the awaited call of chat_action_handler that raises: "raid_protection"
\* (handle_raid_protection or the notice after it), "welcome" (send_welcome)
JoinFailures == { "none", "raid_protection", "welcome" }

\* SonicModBot.chat_action_handler on a ChatAction event
chat_action_handler(user_id, chat_id, action) ==
  IF action = "joined"
  THEN \E fail \in JoinFailures :
       LET c == check_raid(moderation, now)
           aborted == (c.result /\ fail = "raid_protection") \/ fail = "welcome"
           r == add_xp(xp, user_id, XP_PER_JOIN, "join", <<>>, now)
       IN /\ moderation' = c.state
          /\ join_history' = IF moderation.anti_raid_enabled
                             THEN Append(join_history, now) ELSE join_history
          /\ join_chats' = IF moderation.anti_raid_enabled
                           THEN Append(join_chats, chat_id) ELSE join_chats
          /\ xp' = IF aborted THEN xp ELSE r.state
          /\ last' = Call("chat_action_handler", user_id, NoText, "join",
                          IF aborted THEN "aborted" ELSE "joined",
                          [raid |-> c.result], "none", aborted)
          /\ UNCHANGED << now, ticks, action_log, inflight, tickets >>
  ELSE /\ last' = Call("chat_action_handler", user_id, NoText, "none", "left",
                       None, "none", FALSE)
       /\ UNCHANGED << now, ticks, moderation, xp, action_log, join_history, join_chats, inflight, tickets >>

\* a direct call of XPHandler.add_xp (reward_invite, reward_reaction, reward_message
\* and the support reward are such calls)
reward(user_id, amount, action_type) ==
  LET r == add_xp(xp, user_id, amount, action_type, <<>>, now) IN
  /\ xp' = r.state
  /\ last' = Call("add_xp", user_id, NoText, action_type,
                  IF r.accepted THEN "rewarded" ELSE "cooldown",
                  r.result, "none", FALSE)
  /\ UNCHANGED << now, ticks, moderation, action_log, join_history, join_chats, inflight, tickets >>

\* ModerationHandler.add_blacklist_word / remove_blacklist_word
blacklist(word, add) ==
  /\ moderation' = IF add THEN add_blacklist_word(moderation, word)
                   ELSE remove_blacklist_word(moderation, word)
  /\ last' = Call(IF add THEN "add_blacklist_word" ELSE "remove_blacklist_word",
                  0, word, "none", "done", None, "none", FALSE)
  /\ UNCHANGED << now, ticks, xp, action_log, join_history, join_chats, inflight, tickets >>

\* variant: the call creates the sender's record when there is none
classify_registers(user_id, message_text) ==
  /\ last' = Call("check_message", user_id, message_text, "none", "checked",
                  check_message(moderation, user_id, message_text, now),
                  "none", FALSE)
  /\ moderation' = [moderation EXCEPT !.user_records =
                      Put(@, user_id, Get(@, user_id, UserRecord(user_id, now)))]
  /\ UNCHANGED << now, ticks, xp, action_log, join_history, join_chats, inflight, tickets >>

\* a call of ModerationHandler.check_message alone
classify(user_id, message_text) ==
  /\ last' = Call("check_message", user_id, message_text, "none", "checked",
                  check_message(moderation, user_id, message_text, now),
                  "none", FALSE)
  /\ UNCHANGED << now, ticks, moderation, xp, action_log, join_history, join_chats, inflight, tickets >>

\* message_handler on the NewMessage event e of a group, run up to the first
\* await that suspends it: a violation leaves the handler suspended inside
\* handle_violation, any other message is handled to the end
begin_message(e, user_id, message_text) ==
  LET violation == check_message(moderation, user_id, message_text, now)
  IN
  /\ e \notin DOMAIN inflight
  /\ IF Silenced(moderation, user_id)
     THEN /\ last' = Call("message_handler", user_id, message_text, "none",
                          "silenced", None, "none", FALSE)
          /\ UNCHANGED << now, ticks, moderation, xp, action_log, join_history, join_chats,
                          inflight, tickets >>
     ELSE IF moderation.spam_filter_enabled /\ violation # None
     THEN LET h == handle_violation_begin(moderation, violation, now) IN
          /\ moderation' = h.state
          /\ action_log' = Append(action_log,
                                  [ kind |-> h.branch, user_id |-> user_id,
                                    strike_count |-> h.strike_count,
                                    severity |-> violation.severity ])
          /\ inflight' = Put(inflight, e,
                             [ user_id |-> user_id, branch |-> h.branch,
                               violation |-> violation, started |-> now ])
          /\ last' = Call("message_handler", user_id, message_text, "none",
                          "suspended", violation, h.branch, FALSE)
          /\ UNCHANGED << now, ticks, xp, join_history, join_chats, tickets >>
     ELSE LET r == add_xp(xp, user_id, XP_PER_MESSAGE, "message",
                          EventPreview(message_text), now) IN
          /\ xp' = r.state
          /\ last' = Call("message_handler", user_id, message_text, "message",
                          IF r.accepted THEN "rewarded" ELSE "cooldown",
                          r.result, "none", FALSE)
          /\ UNCHANGED << now, ticks, moderation, action_log, join_history, join_chats,
                          inflight, tickets >>

\* the suspended handler of event e goes on: its platform calls return, or
\* the call named by fail raises, and handle_violation and the handler finish
resume_message(e, fail) ==
  /\ e \in DOMAIN inflight
  /\ LET h == inflight[e] IN
     /\ moderation' = handle_violation_resume(moderation, h.user_id, h.branch,
                                              fail, h.started)
     /\ last' = Call("message_handler", h.user_id, NoText, "none", "violation",
                     h.violation, h.branch, Raises(h.branch, fail))
  /\ inflight' = Drop(inflight, e)
  /\ UNCHANGED << now, ticks, xp, action_log, join_history, join_chats, tickets >>

\* variant: the joins are counted per chat
observe_join_per_chat(chat_id) ==
  LET c == check_raid(moderation, now) IN
  /\ moderation' = c.state
  /\ join_history' = Append(join_history, now)
  /\ join_chats' = Append(join_chats, chat_id)
  /\ last' = Call("check_raid", 0, NoText, "join", "checked",
                  [ raid |->
                      Cardinality({ i \in 1..Len(join_chats') :
                                      /\ join_chats'[i] = chat_id
                                      /\ join_history'[i] > now - RaidWindow })
                        >= moderation.raid_threshold ],
                  "none", FALSE)
  /\ UNCHANGED << now, ticks, xp, action_log, inflight, tickets >>

\* a call of ModerationHandler.check_raid for a join in the chat, with raid
\* detection enabled
observe_join(chat_id) ==
  LET c == check_raid(moderation, now) IN
  /\ moderation.anti_raid_enabled
  /\ moderation' = c.state
  /\ join_history' = Append(join_history, now)
  /\ join_chats' = Append(join_chats, chat_id)
  /\ last' = Call("check_raid", 0, NoText, "join", "checked",
                  [ raid |-> c.result ], "none", FALSE)
  /\ UNCHANGED << now, ticks, xp, action_log, inflight, tickets >>

\* a call of XPHandler.get_leaderboard
leaderboard(limit) ==
  /\ last' = Call("get_leaderboard", 0, NoText, "none", "done",
                  [ limit |-> limit, entries |-> get_leaderboard(xp, limit) ],
                  "none", FALSE)
  /\ UNCHANGED << now, ticks, moderation, xp, action_log, join_history, join_chats, inflight, tickets >>

\* a call of XPHandler.calculate_level alone
level_for(total_xp) ==
  /\ last' = Call("calculate_level", 0, NoText, "none", "computed",
                  [ total_xp |-> total_xp, level |-> calculate_level(total_xp) ],
                  "none", FALSE)
  /\ UNCHANGED << now, ticks, moderation, xp, action_log, join_history, join_chats, inflight, tickets >>

\* sum(1 for a in actions if a.action_type == action_type)
CountKind(actions, action_type) ==
  Len(SelectSeq(actions, LAMBDA a : a.action_type = action_type))

\* the progress get_user_stats computes, ((total_xp - current_level_xp) / xp_to_next) * 100,
\* kept as the fraction num / den; 0 when xp_to_next is infinite
Progress(total_xp, level, xp_to_next) ==
  IF xp_to_next.finite
  THEN [ num |-> (total_xp - ThresholdGet(level)) * 100, den |-> xp_to_next.value ]
  ELSE [ num |-> 0, den |-> 1 ]

\* XPHandler.get_user_stats
get_user_stats(x, user_id) ==
  LET total_xp == Get(x.user_totals, user_id, 0)
      level == Get(x.user_levels, user_id, 1)
      actions == Get(x.user_xp, user_id, <<>>)
      xp_to_next == xp_for_next_level(level)
  IN [ user_id |-> user_id, total_xp |-> total_xp, level |-> level,
       title |-> TitleGet(level), xp_to_next |-> xp_to_next,
       progress |-> Progress(total_xp, level, xp_to_next),
       message_count |-> CountKind(actions, "message"),
       reaction_count |-> CountKind(actions, "reaction"),
       invite_count |-> CountKind(actions, "invite") ]

\* a call of XPHandler.get_user_stats
user_stats(user_id) ==
  /\ last' = Call("get_user_stats", user_id, NoText, "none", "done",
                  get_user_stats(xp, user_id), "none", FALSE)
  /\ UNCHANGED << now, ticks, moderation, xp, action_log, join_history, join_chats, inflight, tickets >>

\* a call of XPHandler.xp_for_next_level alone
xp_needed(current_level) ==
  /\ last' = Call("xp_for_next_level", 0, NoText, "none", "computed",
                  [ current_level |-> current_level,
                    xp_needed |-> xp_for_next_level(current_level) ],
                  "none", FALSE)
  /\ UNCHANGED << now, ticks, moderation, xp, action_log, join_history, join_chats, inflight, tickets >>

\* a call of TicketHandler.create_ticket (support_handler is such a call)
support(user_id, chat_id, subject) ==
  LET r == create_ticket(tickets, user_id, chat_id, subject, <<>>, now) IN
  /\ tickets' = r.state
  /\ last' = Call("create_ticket", user_id, subject, "none",
                  IF r.result = None THEN "refused" ELSE "created",
                  r.result, "none", FALSE)
  /\ UNCHANGED << now, ticks, moderation, xp, action_log, join_history, join_chats, inflight >>

\* a call of TicketHandler.close_ticket
close(ticket_id) ==
  LET r == close_ticket(tickets, ticket_id) IN
  /\ tickets' = r.state
  /\ last' = Call("close_ticket", 0, NoText, "none",
                  IF r.result THEN "closed" ELSE "unknown",
                  [ ticket_id |-> ticket_id ], "none", FALSE)
  /\ UNCHANGED << now, ticks, moderation, xp, action_log, join_history, join_chats, inflight >>

(***************************************************************************)
(* Bounds and inputs                                                       *)
(***************************************************************************)
MaxTicks == 1
MaxStrikes == 3
MaxEntries == 1
MaxRewards == 3
MaxJoins == 11
MaxEscalations == 4
MaxStats == 2
MaxTickets == 3

HelloText == <<"h","e","l","l","o">>
SpamText == <<"b","u","y"," ","n","o","w">>
ScamText == <<"s","e","n","d"," ","c","r","y","p","t","o">>
WalletText == <<"w","a","l","l","e","t"," ","c","o","n","n","e","c","t">>
UrlText == <<"h","t","t","p","s",":","/","/","x",".","i","o">>
InviteText == <<"t",".","m","e","/","+","x">>
RepeatText == <<"a","a","a","a","a","a">>
ShortRunText == <<"a","a","a","a","a">>
BadText == <<"b","a","d","w","o","r","d">>
BadWord == <<"B","a","d","W","o","r","d">>

\* the number of XP entries stored, over all users
RECURSIVE EntryCount(_, _)
EntryCount(x, users) ==
  IF users = {} THEN 0
  ELSE LET u == CHOOSE v \in users : TRUE
       IN Len(x.user_xp[u]) + EntryCount(x, users \ {u})

(***************************************************************************)
(* Specifications                                                          *)
(***************************************************************************)
StartCall == Call("init", 0, NoText, "none", "init", None, "none", FALSE)

InitWith(thresholds, spam_filters, anti_raids) ==
  /\ now = 0
  /\ ticks = 0
  /\ \E th \in thresholds, sf \in spam_filters, ar \in anti_raids :
        moderation = ModerationHandlerInit(th, sf, ar)
  /\ xp = XPHandlerInit
  /\ action_log = <<>>
  /\ join_history = <<>>
  /\ join_chats = <<>>
  /\ inflight = EmptyDict
  /\ tickets = TicketHandlerInit
  /\ last = StartCall

\* Spec, the message path of the bot: the group and private messages of one
\* sender, direct rewards of that sender, and the clock.
Senders == { 1 }
MessageTexts == { HelloText, ScamText, UrlText }
ClockSteps == { auto_mute_duration + 1 }
Rewards == { << 1000, "invite" >> }

Bounded ==
  /\ Len(moderation'.violation_log) <= MaxStrikes
  /\ EntryCount(xp', DOMAIN xp'.user_xp) <= MaxEntries

Init == InitWith({DefaultStrikeThreshold}, BOOLEAN, {TRUE})

Next ==
  \/ \E d \in ClockSteps : ticks < MaxTicks /\ Tick(d)
  \/ \E u \in Senders, t \in MessageTexts, p \in BOOLEAN :
        message_handler(u, 1, t, p) /\ Bounded
  \/ \E u \in Senders, r \in Rewards :
        reward(u, r[1], r[2]) /\ Bounded

Spec == Init /\ [][Next]_vars

\* SpecXP, the XPHandler alone: rewards of two users and the clock.
Users == { 1, 2 }
XpClockSteps == { 30, 60, SecondsPerDay }
XpRewards ==
  { << XP_PER_MESSAGE, "message" >>, << 99, "invite" >>, << 1000, "support" >> }

InitXP == InitWith({DefaultStrikeThreshold}, {TRUE}, {TRUE})

NextXP ==
  \/ \E d \in XpClockSteps : ticks < MaxTicks /\ Tick(d)
  \/ \E u \in Users, r \in XpRewards :
        /\ reward(u, r[1], r[2])
        /\ EntryCount(xp', DOMAIN xp'.user_xp) <= MaxRewards

SpecXP == InitXP /\ [][NextXP]_vars

\* SpecSigned, the XPHandler called with amounts of either sign: add_xp takes
\* any int as amount.
SignedRewards ==
  { << XP_PER_MESSAGE, "message" >>, << 100, "invite" >>, << -1, "reaction" >> }

NextSigned ==
  \/ \E d \in XpClockSteps : ticks < MaxTicks /\ Tick(d)
  \/ \E u \in Users, r \in SignedRewards :
        /\ reward(u, r[1], r[2])
        /\ EntryCount(xp', DOMAIN xp'.user_xp) <= MaxRewards

SpecSigned == InitXP /\ [][NextSigned]_vars

\* SpecInterleave, the message handlers of two events of two senders at a time
\* that interleave at the awaits of handle_violation; every platform call
\* succeeds.
Events == { 1, 2 }
InterleaveFailures == { "none" }

NextInterleave ==
  \/ \E d \in ClockSteps : ticks < MaxTicks /\ Tick(d)
  \/ \E e \in Events, u \in Users, t \in MessageTexts :
        begin_message(e, u, t) /\ Bounded
  \/ \E e \in Events, f \in InterleaveFailures : resume_message(e, f)

SpecInterleave == InitXP /\ [][NextInterleave]_vars

\* SpecEscalation, the strike ledger under several thresholds: violations of
\* one sender whose platform calls may fail, classification of messages
\* without text, and a clock that steps past the lifetime of a strike.
EscalationThresholds == { 0, 1, 2, 3, 4, 5 }
EscalationTexts == { UrlText, ScamText }
EscalationClockSteps == { StrikeLifetime + 1 }
EmptyTexts == { NoText, <<>> }

InitEscalation == InitWith(EscalationThresholds, {TRUE}, {TRUE})

NextEscalation ==
  \/ \E d \in EscalationClockSteps : ticks < MaxTicks /\ Tick(d)
  \/ \E u \in Senders, t \in EscalationTexts :
        /\ message_handler(u, 1, t, FALSE)
        /\ Len(moderation'.violation_log) <= MaxEscalations
  \/ \E u \in Senders, t \in EmptyTexts : classify(u, t)

SpecEscalation == InitEscalation /\ [][NextEscalation]_vars

\* SpecBoard, the leaderboard: rewards of three users, with equal and with
\* distinct totals, and leaderboards of every length up to the user count.
BoardUsers == { 1, 2, 3 }
BoardRewards == { << 50, "invite" >>, << 100, "support" >> }
Limits == { 0, 1, 2, 3, 10 }

NextBoard ==
  \/ \E u \in BoardUsers, r \in BoardRewards :
        /\ reward(u, r[1], r[2])
        /\ EntryCount(xp', DOMAIN xp'.user_xp) <= MaxRewards
  \/ \E l \in Limits : leaderboard(l)

SpecBoard == InitXP /\ [][NextBoard]_vars

\* SpecRaid, the join path of the bot: joins and leaves of one user in one
\* chat, and the clock.
Chats == { 1, 2 }
RaidChats == { 1 }
RaidClockSteps == { 30, 60 }

InitRaid == InitWith({DefaultStrikeThreshold}, {TRUE}, BOOLEAN)

NextRaid ==
  \/ \E d \in RaidClockSteps : ticks < MaxTicks /\ Tick(d)
  \/ \E u \in Senders, c \in RaidChats, a \in { "joined", "left" } :
        /\ chat_action_handler(u, c, a)
        /\ Len(join_history') <= MaxJoins
        /\ EntryCount(xp', DOMAIN xp'.user_xp) <= MaxJoins

SpecRaid == InitRaid /\ [][NextRaid]_vars

\* SpecWindow, check_raid alone: joins in two chats within one minute.
WindowClockSteps == { 30 }

NextWindow ==
  \/ \E d \in WindowClockSteps : ticks < MaxTicks /\ Tick(d)
  \/ \E c \in Chats : observe_join(c) /\ Len(join_history') <= MaxJoins

SpecWindow == InitXP /\ [][NextWindow]_vars

\* SpecClassify, check_message alone: texts put together from two fragments in
\* three casings, with the blacklist commands.
UpperMap ==
  [ c \in { LowerChars[i] : i \in 1..Len(LowerChars) } |->
      UpperChars[CHOOSE i \in 1..Len(LowerChars) : LowerChars[i] = c] ]

UpperChar(c) == IF c \in DOMAIN UpperMap THEN UpperMap[c] ELSE c

Casings == { "lower", "upper", "alternate" }

Cased(text, casing) ==
  [ i \in 1..Len(text) |->
      IF casing = "upper" \/ (casing = "alternate" /\ i % 2 = 1)
      THEN UpperChar(text[i]) ELSE text[i] ]

Fragments ==
  { <<>>, HelloText, SpamText, ScamText, WalletText, UrlText, InviteText,
    RepeatText, ShortRunText, BadText }

ClassifyTexts ==
  { Cased(a \o b, c) : a \in Fragments, b \in Fragments, c \in Casings } \cup { NoText }

NextClassify ==
  \/ \E u \in Senders, t \in ClassifyTexts : classify(u, t)
  \/ \E a \in BOOLEAN : blacklist(BadWord, a)

SpecClassify == InitXP /\ [][NextClassify]_vars

\* SpecLevel, calculate_level alone: totals below, at and above every
\* threshold, and every total of the first three levels.
TotalXps ==
  (-2..260)
    \cup { LEVEL_THRESHOLDS[i] + d : i \in 1..Len(LEVEL_THRESHOLDS), d \in { -1, 0, 1 } }
    \cup { 30000 }

NextLevel == \E n \in TotalXps : level_for(n)

SpecLevel == InitXP /\ [][NextLevel]_vars

(***************************************************************************)
(* Properties                                                              *)
(***************************************************************************)
\* the escalation branches taken for one user, oldest first
UserActions(log, user_id) == SelectSeq(log, LAMBDA a : a.user_id = user_id)

\* the first n violations of the user were all of severity 1
AllMinor(log, user_id, n) ==
  \A j \in 1..n : UserActions(log, user_id)[j].severity = 1

\* with strike_threshold 3, the branches of a user's first three strikes, all
\* of severity 1, are the first entries of expected
FirstThree(expected) ==
  moderation.strike_threshold = 3 =>
    \A u \in Senders :
      \A i \in 1..Min(3, Len(UserActions(action_log, u))) :
        AllMinor(action_log, u, i) =>
          UserActions(action_log, u)[i].kind = expected[i]

\* C1 as stated: with strike_threshold 3, three successive severity-1
\* violations of a user without strikes give Warn, then Mute, then Ban.
C1_WarnMuteBan == FirstThree(<< "warn", "mute", "ban" >>)

\* C1 (amended): with strike_threshold 3, three successive severity-1
\* violations of a user without strikes take the Mute branch on the 1st
\* strike, the Mute branch on the 2nd and the Ban branch on the 3rd.
C1_MuteMuteBan == FirstThree(<< "mute", "mute", "ban" >>)

C1_Witness ==
  \E u \in Senders :
    /\ moderation.strike_threshold = 3
    /\ Len(UserActions(action_log, u)) = 3
    /\ AllMinor(action_log, u, 3)
    /\ Len(moderation.user_records[u].strikes) = 3
    /\ [ i \in 1..3 |-> UserActions(action_log, u)[i].kind ]
         = << "mute", "mute", "ban" >>

\* C2: a violation of severity >= 3 takes the Ban branch whatever the strike
\* count, and is_banned is true for the user when handle_violation returns.
C2_SevereBans ==
  (last.op = "message_handler" /\ last.outcome = "violation"
     /\ last.result.severity >= 3)
  => /\ last.branch = "ban"
     /\ moderation.user_records[last.user].is_banned

\* the Ban branch has been taken for the user
BanTaken(user_id) ==
  \E i \in 1..Len(action_log) :
    action_log[i].user_id = user_id /\ action_log[i].kind = "ban"

\* C3: once the Ban branch has been taken for a user, no later event appends
\* a strike, changes the warnings or the mute flags, or takes another
\* moderation action for that user.
C3_BanTerminal ==
  [][ \A u \in Senders :
        BanTaken(u) =>
          /\ moderation'.user_records[u] = moderation.user_records[u]
          /\ UserActions(action_log', u) = UserActions(action_log, u) ]_vars

\* C4: a group message of a muted (not banned) user that arrives after the
\* user's mute_expires is handled like the message of an unmuted user: it is
\* classified, and struck or rewarded, not skipped.
C4_MuteExpires ==
  \A u \in Senders :
    ( /\ last.op = "message_handler" /\ last.user = u
      /\ last.outcome # "private"
      /\ u \in DOMAIN moderation.user_records
      /\ moderation.user_records[u].is_muted
      /\ ~moderation.user_records[u].is_banned
      /\ now > moderation.user_records[u].mute_expires )
    => last.outcome # "silenced"

\* C5: a classified message that holds only a URL is no violation when the
\* sender's level in the XP ledger is >= 5, and an advertising violation of
\* severity 1 when it is below 5.
C5_LinkExemption ==
  ( /\ last.op = "message_handler" /\ last.input = UrlText
    /\ last.outcome \notin { "private", "silenced" }
    /\ moderation.spam_filter_enabled )
  => IF Get(xp.user_levels, last.user, 1) >= LinkLevel
     THEN last.outcome # "violation"
     ELSE /\ last.outcome = "violation"
          /\ last.result.violation_type = "advertising"
          /\ last.result.severity = 1

\* C6: a message reward is rejected by the cooldown only when fewer than 60
\* seconds have passed since the user's last accepted message reward.
C6_RejectedOnlyWithin60 ==
  (last.op = "add_xp" /\ last.kind = "message" /\ last.outcome = "cooldown")
  => now - xp.message_cooldowns[last.user] < cooldown_seconds

\* C7: a message reward attempted less than 60 seconds after the user's last
\* accepted message reward returns none and leaves the XP history, total_xp,
\* the level and the stored cooldown timestamp unchanged.
C7_CooldownNoOp ==
  [][ \A u \in Users :
        ( /\ last'.op = "add_xp" /\ last'.user = u /\ last'.kind = "message"
          /\ u \in DOMAIN xp.message_cooldowns
          /\ now - xp.message_cooldowns[u] < cooldown_seconds )
        => /\ last'.outcome = "cooldown"
           /\ last'.result = None
           /\ xp' = xp ]_vars

C7_Witness ==
  /\ last.op = "add_xp" /\ last.kind = "message" /\ last.outcome = "cooldown"
  /\ now > xp.message_cooldowns[last.user]
  /\ now - xp.message_cooldowns[last.user] < cooldown_seconds
  /\ xp.user_totals[last.user] = XP_PER_MESSAGE

\* the joins counted so far that are less than 60 seconds old
RecentJoins ==
  Cardinality({ i \in 1..Len(join_history) : join_history[i] > now - RaidWindow })

SameLetter(a, b) ==
  \/ a = b
  \/ \E i \in 1..Len(UpperChars) :
        { a, b } = { UpperChars[i], LowerChars[i] }

\* some keyword occurs in the text, whatever the casing of the text
HasKeyword(text, keywords) ==
  \E k \in 1..Len(keywords) :
    \E i \in 1..(Len(text) - Len(keywords[k]) + 1) :
      \A j \in 1..Len(keywords[k]) : SameLetter(text[i + j - 1], keywords[k][j])

\* C9: a text that holds a scam keyword and no spam keyword, in any casing,
\* is classified as a scam violation of severity 3.
C9_ScamSeverity3 ==
  ( /\ last.op = "check_message" /\ last.input # NoText
    /\ HasKeyword(last.input, SCAM_KEYWORDS)
    /\ ~HasKeyword(last.input, SPAM_KEYWORDS) )
  => /\ last.result # None
     /\ last.result.violation_type = "scam"
     /\ last.result.severity = 3

C9_Witness ==
  /\ last.op = "check_message" /\ last.input # NoText
  /\ last.input # Lower(last.input)
  /\ HasKeyword(last.input, SCAM_KEYWORDS)
  /\ ~HasKeyword(last.input, SPAM_KEYWORDS)
  /\ LINK_PATTERN(Lower(last.input))
  /\ last.result.violation_type = "scam"

\* C10: for every user with a stored total, the stored level is
\* calculate_level of that total.
C10_LevelMatchesTotal ==
  \A u \in DOMAIN xp.user_totals :
    /\ u \in DOMAIN xp.user_levels
    /\ xp.user_levels[u] = calculate_level(xp.user_totals[u])

C10_Witness ==
  \E u \in DOMAIN xp.user_totals :
    /\ Len(xp.user_xp[u]) >= 2
    /\ xp.user_totals[u] = 100
    /\ xp.user_levels[u] = 2
    /\ last.op = "add_xp" /\ last.user = u /\ last.result # None

\* C11: calculate_level(total_xp) is the greatest level of the threshold table
\* whose threshold is <= total_xp, and level 1 when total_xp is below every
\* threshold; 99 gives level 1 and 100 gives level 2.
C11_GreatestLevel ==
  last.op = "calculate_level" =>
    LET n == last.result.total_xp
        reached == { l \in 1..Len(LEVEL_THRESHOLDS) : LEVEL_THRESHOLDS[l] <= n }
    IN /\ reached = {} => last.result.level = 1
       /\ reached # {} =>
            /\ last.result.level \in reached
            /\ \A l \in reached : l <= last.result.level
       /\ n = 99 => last.result.level = 1
       /\ n = 100 => last.result.level = 2

C11_Witness ==
  /\ last.op = "calculate_level"
  /\ last.result.total_xp = 100
  /\ last.result.level = 2

\* C12: an accepted add_xp returns a level-up result exactly when the
\* recomputed level is greater than the level stored before (1 for a user
\* never seen); the result carries that previous level as old_level and the
\* recomputed level as new_level; otherwise add_xp returns none.
C12_LevelUpExactly ==
  [][ \A u \in Users :
        (last'.op = "add_xp" /\ last'.user = u /\ last'.outcome = "rewarded")
        => LET old == Get(xp.user_levels, u, 1)
               new == calculate_level(xp'.user_totals[u])
           IN IF new > old
              THEN /\ last'.result # None
                   /\ last'.result.old_level = old
                   /\ last'.result.new_level = new
              ELSE last'.result = None ]_vars

C12_Witness ==
  /\ last.op = "add_xp" /\ last.outcome = "rewarded"
  /\ last.result # None
  /\ last.result.new_level > last.result.old_level + 1
  /\ last.result.new_level = xp.user_levels[last.user]

GroupMessageStep ==
  last'.op = "message_handler" /\ last'.outcome # "private"

\* the step recorded a strike for the sender of its message
StrikeRecorded ==
  /\ last'.user \in DOMAIN moderation'.user_records
  /\ Len(moderation'.user_records[last'.user].strikes)
       = 1 + ( IF last'.user \in DOMAIN moderation.user_records
               THEN Len(moderation.user_records[last'.user].strikes) ELSE 0 )
  /\ Len(moderation'.violation_log) = Len(moderation.violation_log) + 1

\* the step called reward_message for its message
RewardAttempted == last'.kind = "message"

\* the message handler classifies the step's message as a violation
ClassifiedViolation ==
  /\ moderation.spam_filter_enabled
  /\ check_message(moderation, last'.user, last'.input, now) # None

\* C14 as stated: every group message is routed to exactly one ledger: a
\* strike and no reward attempt if it is classified as a violation, a reward
\* attempt and no strike otherwise.
C14_ExactlyOneLedger ==
  [][ GroupMessageStep =>
        IF ClassifiedViolation
        THEN StrikeRecorded /\ ~RewardAttempted /\ xp' = xp
        ELSE RewardAttempted /\ moderation' = moderation ]_vars

\* C14 (amended): a group message of a user who is flagged neither banned nor
\* muted is routed to exactly one ledger as stated; a group message of a user
\* flagged banned or muted is dropped before classification, with no strike
\* and no reward attempt. No message both adds a strike and adds XP.
C14_OneLedgerUnlessSilenced ==
  [][ GroupMessageStep =>
        LET u == last'.user
            flagged == /\ u \in DOMAIN moderation.user_records
                       /\ \/ moderation.user_records[u].is_banned
                          \/ moderation.user_records[u].is_muted
        IN /\ IF flagged
              THEN ~RewardAttempted /\ moderation' = moderation /\ xp' = xp
              ELSE IF ClassifiedViolation
              THEN StrikeRecorded /\ ~RewardAttempted /\ xp' = xp
              ELSE RewardAttempted /\ moderation' = moderation
           /\ ~(moderation' # moderation /\ xp' # xp) ]_vars

C14_Witness ==
  /\ last.op = "message_handler" /\ last.outcome = "silenced"
  /\ last.input = ScamText
  /\ moderation.user_records[last.user].is_muted
  /\ Len(moderation.user_records[last.user].strikes) = 1
  /\ last.user \in DOMAIN xp.user_totals

\* C15: when the enforcement call or the notice reply raises during
\* handle_violation, the exception does not leave handle_violation (the
\* message handler goes on as after any violation), and the strike appended
\* for the violation and its violation_log entry stay recorded.
C15_FailureKeepsStrike ==
  [][ ( /\ last'.op = "message_handler"
        /\ last'.outcome \in { "violation", "error" }
        /\ last'.raised = "raised" )
      => LET u == last'.user
             before == IF u \in DOMAIN moderation.user_records
                       THEN moderation.user_records[u].strikes ELSE <<>>
             after == moderation'.user_records[u].strikes
         IN /\ last'.outcome = "violation"
            /\ Len(after) = Len(before) + 1
            /\ \A i \in 1..Len(before) : after[i] = before[i]
            /\ after[Len(after)].violation = last'.result
            /\ moderation'.violation_log
                 = Append(moderation.violation_log, last'.result) ]_vars

C15_Witness ==
  /\ last.op = "message_handler" /\ last.outcome = "violation"
  /\ last.raised = "raised"
  /\ Len(moderation.user_records[last.user].strikes) = 2
  /\ Len(moderation.violation_log) = 2

\* C16: the record update of a violation (is_banned, is_muted with
\* mute_expires, or warnings) is committed with its strike whether or not the
\* platform calls succeed: no record has the strike counted and the update
\* of the branch taken missing.
C16_UpdateWithStrike ==
  (last.op = "message_handler" /\ last.outcome \in { "violation", "error" })
  => LET record == moderation.user_records[last.user] IN
     /\ last.branch = "ban" => record.is_banned
     /\ last.branch = "mute" =>
          record.is_muted /\ record.mute_expires = now + moderation.mute_duration
     /\ last.branch = "warn" => record.warnings >= 1

\* C17: message handlers of one user that interleave at their awaits leave
\* the record as some one-after-the-other order would; in particular no
\* message is classified and struck after an earlier message of the same
\* user has taken the Mute or Ban branch.
C17_NoStrikeAfterEscalation ==
  [][ \A u \in Users :
        ( /\ u \in DOMAIN moderation.user_records
          /\ \E i \in 1..Len(action_log) :
                /\ action_log[i].user_id = u
                /\ action_log[i].kind \in { "mute", "ban" } )
        => moderation'.user_records[u].strikes
             = moderation.user_records[u].strikes ]_vars

\* C18: every join event applies the join reward (10 XP, kind "join") to the
\* joining user, whether or not a raid was reported and whether or not the
\* raid protection or the welcome message failed.
C18_JoinRewarded ==
  [][ ( /\ last'.op = "chat_action_handler"
        /\ last'.outcome \in { "joined", "aborted" } )
      => LET u == last'.user IN
         /\ u \in DOMAIN xp'.user_totals
         /\ xp'.user_totals[u] = Get(xp.user_totals, u, 0) + XP_PER_JOIN
         /\ LET entries == xp'.user_xp[u] IN
            /\ entries[Len(entries)].action_type = "join"
            /\ entries[Len(entries)].amount = XP_PER_JOIN ]_vars

\* C19: the strike count of the escalation decision is the number of all
\* strikes ever recorded for the user; a strike whose expires_at lies in the
\* past still counts, so the decision does not depend on the current time.
C19_AllStrikesCount ==
  (last.op = "message_handler" /\ last.outcome = "violation")
  => LET ever == Len(UserActions(action_log, last.user)) IN
     /\ Len(moderation.user_records[last.user].strikes) = ever
     /\ action_log[Len(action_log)].strike_count = ever
     /\ last.branch = Escalation(last.result.severity, ever,
                                 moderation.strike_threshold)

C19_Witness ==
  /\ last.op = "message_handler" /\ last.outcome = "violation"
  /\ last.result.severity = 1
  /\ last.branch = "ban"
  /\ LET record == moderation.user_records[last.user] IN
     /\ \E i \in 1..Len(record.strikes) : record.strikes[i].expires_at < now
     /\ Escalation(1, ActiveStrikes(record, now), moderation.strike_threshold) # "ban"

\* Warn < Mute < Ban
Rank(kind) == IF kind = "warn" THEN 1 ELSE IF kind = "mute" THEN 2 ELSE 3

\* C20: for a fixed strike_threshold and violations of severity below 3, a
\* later strike of a user never takes a lower-ranked branch than an earlier
\* strike of that user, with Warn < Mute < Ban.
C20_EscalationMonotonic ==
  \A u \in Senders :
    LET actions == UserActions(action_log, u) IN
    \A i, j \in 1..Len(actions) :
      (i < j /\ actions[i].severity < 3 /\ actions[j].severity < 3)
      => Rank(actions[i].kind) <= Rank(actions[j].kind)

C20_Witness ==
  \E u \in Senders :
    LET actions == UserActions(action_log, u) IN
    /\ Len(actions) = 4
    /\ \A i \in 1..4 : actions[i].severity < 3
    /\ [ i \in 1..4 |-> actions[i].kind ] = << "warn", "mute", "mute", "ban" >>

\* C21: an add_xp call of a kind other than message (reaction, invite,
\* support, join) is never gated: it appends an XP entry and adds its amount
\* to total_xp whatever the user's message cooldown timestamp is, and leaves
\* the cooldown timestamps unchanged.
C21_OtherKindsUngated ==
  [][ \A u \in Users :
        ( /\ last'.op = "add_xp" /\ last'.user = u
          /\ last'.kind \in { "reaction", "invite", "support", "join" } )
        => LET before == Get(xp.user_xp, u, <<>>)
               after == xp'.user_xp[u]
           IN /\ last'.outcome = "rewarded"
              /\ Len(after) = Len(before) + 1
              /\ \A i \in 1..Len(before) : after[i] = before[i]
              /\ after[Len(after)].action_type = last'.kind
              /\ xp'.user_totals[u]
                   = Get(xp.user_totals, u, 0) + after[Len(after)].amount
              /\ xp'.message_cooldowns = xp.message_cooldowns ]_vars

C21_Witness ==
  /\ last.op = "add_xp" /\ last.kind = "invite" /\ last.outcome = "rewarded"
  /\ last.user \in DOMAIN xp.message_cooldowns
  /\ now - xp.message_cooldowns[last.user] < cooldown_seconds
  /\ Len(xp.user_xp[last.user]) = 2
  /\ xp.user_totals[last.user] = XP_PER_MESSAGE + 99

\* the kind and severity of the first rule the text of a sender of the given
\* level matches, in the order spam keyword, scam keyword, link, run of
\* identical characters, blacklist word; "none" when no rule matches
FirstRule(text, level) ==
  IF HasKeyword(text, SPAM_KEYWORDS) THEN << "spam", 1 >>
  ELSE IF HasKeyword(text, SCAM_KEYWORDS) THEN << "scam", 3 >>
  ELSE IF LINK_PATTERN(Lower(text)) /\ level < LinkLevel
       THEN << "advertising", 1 >>
  ELSE IF REPEAT_PATTERN(Lower(text)) THEN << "repetitive", 1 >>
  ELSE IF \E word \in moderation.word_blacklist : Contains(Lower(text), word)
       THEN << "explicit", 2 >>
  ELSE << "none", 0 >>

\* C22: classification follows the order spam keyword, scam keyword, link
\* (sender level < 5), run of 6 identical characters, blacklist word, and the
\* first matching rule alone gives the result; a text matching no rule
\* yields none.
C22_FirstMatchWins ==
  ( /\ last.op = "message_handler"
    /\ last.outcome \notin { "private", "silenced" }
    /\ moderation.spam_filter_enabled )
  => LET rule == FirstRule(last.input, Get(xp.user_levels, last.user, 1)) IN
     IF rule[1] = "none" THEN last.outcome # "violation"
     ELSE /\ last.outcome = "violation"
          /\ last.result.violation_type = rule[1]
          /\ last.result.severity = rule[2]

\* C23: get_leaderboard(limit) returns at most limit entries with ranks 1..n
\* in order; of two returned entries with distinct XP the one with the larger
\* total has the strictly smaller rank; no user outside the result has more
\* XP than a user inside it.
C23_LeaderboardOrder ==
  last.op = "get_leaderboard" =>
    LET board == last.result.entries
        inside == { board[i].user_id : i \in 1..Len(board) }
    IN /\ Len(board) <= last.result.limit
       /\ \A i \in 1..Len(board) :
            /\ board[i].rank = i
            /\ board[i].user_id \in DOMAIN xp.user_totals
            /\ board[i].xp = xp.user_totals[board[i].user_id]
       /\ \A i, j \in 1..Len(board) :
            board[i].xp > board[j].xp => board[i].rank < board[j].rank
       /\ \A u \in DOMAIN xp.user_totals \ inside :
            \A i \in 1..Len(board) : xp.user_totals[u] <= board[i].xp

C23_Witness ==
  /\ last.op = "get_leaderboard" /\ last.result.limit = 2
  /\ Len(xp.keys) = 3
  /\ Len(last.result.entries) = 2
  /\ last.result.entries[1].user_id = xp.keys[3]
  /\ last.result.entries[1].xp > last.result.entries[2].xp
  /\ last.result.entries[2].user_id = xp.keys[1]
  /\ last.result.entries[2].xp = xp.user_totals[xp.keys[2]]

\* C24: check_message on a message whose text is absent or empty returns
\* none, without failing and without changing the moderation state, also for
\* a sender without a moderation record.
C24_EmptyTextIsNone ==
  [][ (last'.op = "check_message" /\ last'.input \in { NoText, <<>> })
      => /\ last'.outcome = "checked"
         /\ last'.result = None
         /\ moderation' = moderation ]_vars

C24_Witness ==
  /\ last.op = "check_message" /\ last.input = NoText
  /\ last.result = None
  /\ last.user \notin DOMAIN moderation.user_records
  /\ moderation.violation_log = <<>>

\* C25: a user's level depends on the cumulative total_xp alone, not on the
\* order or the kinds of the rewards behind it: users with the same total_xp
\* have the same stored level, which is calculate_level of that total.
C25_SameTotalSameLevel ==
  \A u, v \in DOMAIN xp.user_totals :
    xp.user_totals[u] = xp.user_totals[v] =>
      /\ xp.user_levels[u] = xp.user_levels[v]
      /\ xp.user_levels[u] = calculate_level(xp.user_totals[v])

C25_Witness ==
  \E u, v \in DOMAIN xp.user_totals :
    /\ xp.user_totals[u] = 100 /\ xp.user_totals[v] = 100
    /\ Len(xp.user_xp[u]) = 2 /\ xp.user_xp[u][1].action_type = "invite"
    /\ Len(xp.user_xp[v]) = 1 /\ xp.user_xp[v][1].action_type = "support"
    /\ xp.user_levels[u] = 2 /\ xp.user_levels[v] = 2

\* C26: when handle_violation takes the Mute branch, afterwards is_muted is
\* true, mute_expires is the time of the call plus mute_duration, and every
\* strike recorded before the call is still there.
C26_MuteBranchMutes ==
  [][ ( /\ last'.op = "message_handler" /\ last'.outcome = "violation"
        /\ last'.branch = "mute" )
      => LET u == last'.user
             before == IF u \in DOMAIN moderation.user_records
                       THEN moderation.user_records[u].strikes ELSE <<>>
             record == moderation'.user_records[u]
         IN /\ record.is_muted
            /\ record.mute_expires = now + moderation.mute_duration
            /\ Len(record.strikes) = Len(before) + 1
            /\ \A i \in 1..Len(before) : record.strikes[i] = before[i] ]_vars

\* C27: when handle_violation takes the Warn branch, the user's warnings grow
\* by exactly one and is_banned, is_muted and mute_expires stay as they were.
C27_WarnBranchCounts ==
  [][ ( /\ last'.op = "message_handler" /\ last'.outcome = "violation"
        /\ last'.branch = "warn" )
      => LET u == last'.user
             before == Get(moderation.user_records, u, UserRecord(u, now))
             record == moderation'.user_records[u]
         IN /\ record.warnings = before.warnings + 1
            /\ record.is_banned = before.is_banned
            /\ record.is_muted = before.is_muted
            /\ record.mute_expires = before.mute_expires ]_vars

\* C28: a check_raid call at time now appends now and drops exactly the
\* entries older than now - 60 s: an entry of exactly now - 60 s is kept and
\* counted, and the call returns (entries left >= raid_threshold).
C28_BoundaryKept ==
  [][ ( /\ last'.op = "chat_action_handler"
        /\ last'.outcome \in { "joined", "aborted" }
        /\ moderation.anti_raid_enabled )
      => LET kept == SelectSeq(Append(moderation.join_timestamps, now),
                               LAMBDA t : t >= now - RaidWindow)
         IN /\ moderation'.join_timestamps = kept
            /\ last'.result.raid = (Len(kept) >= moderation.raid_threshold) ]_vars

\* the joins of the chat counted so far that are less than 60 seconds old
RecentJoinsIn(chat_id) ==
  Cardinality({ i \in 1..Len(join_history) :
                  join_chats[i] = chat_id /\ join_history[i] > now - RaidWindow })

\* C29: the raid window is one sequence for the whole process: joins count
\* together whatever their chat, so k joins in one chat and 10 - k in
\* another within the same 60 seconds make the 10th check_raid return true.
C29_WindowSharedByChats ==
  last.op = "check_raid" =>
    last.result.raid = (RecentJoinsIn(1) + RecentJoinsIn(2) >= 10)

C29_Witness ==
  /\ last.op = "check_raid" /\ last.result.raid
  /\ Len(join_history) = 10
  /\ RecentJoinsIn(1) = 4
  /\ RecentJoinsIn(2) = 6

\* the number of strikes over the records of the users
RECURSIVE StrikeSum(_, _)
StrikeSum(records, users) ==
  IF users = {} THEN 0
  ELSE LET u == CHOOSE v \in users : TRUE
       IN Len(records[u].strikes) + StrikeSum(records, users \ {u})

\* C30: every user's strike sequence only grows (no strike is removed or
\* reordered), is_banned once true stays true, and the length of
\* violation_log is the sum of the strike counts over all user records.
C30_StrikesOnlyGrow ==
  [][ /\ \A u \in DOMAIN moderation.user_records :
           LET before == moderation.user_records[u]
               after == moderation'.user_records[u]
           IN /\ u \in DOMAIN moderation'.user_records
              /\ Len(after.strikes) >= Len(before.strikes)
              /\ \A i \in 1..Len(before.strikes) : after.strikes[i] = before.strikes[i]
              /\ before.is_banned => after.is_banned
      /\ Len(moderation'.violation_log)
           = StrikeSum(moderation'.user_records, DOMAIN moderation'.user_records)
    ]_vars

C30_Witness ==
  /\ DOMAIN moderation.user_records = Users
  /\ moderation.user_records[1].is_banned
  /\ Len(moderation.user_records[1].strikes) = 2
  /\ Len(moderation.user_records[2].strikes) = 1
  /\ Len(moderation.violation_log) = 3

\* C31: a moderation record is created on the user's first violation: a user
\* has an entry in user_records exactly when a strike has been recorded for
\* that user, so every record holds at least one strike.
C31_RecordIffStrike ==
  /\ \A u \in DOMAIN moderation.user_records :
        /\ Len(moderation.user_records[u].strikes) >= 1
        /\ Len(UserActions(action_log, u)) >= 1
  /\ \A i \in 1..Len(action_log) :
        action_log[i].user_id \in DOMAIN moderation.user_records

C31_Witness ==
  /\ last.op = "message_handler" /\ last.outcome = "violation"
  /\ last.user \in DOMAIN moderation.user_records
  /\ Len(moderation.user_records[last.user].strikes) = 1
  /\ Len(UserActions(action_log, last.user)) = 1

\* SpecStats, the XPHandler with its statistics: rewards of one user that
\* reach the first, a middle and the last two levels in one step and pass the
\* last threshold, a reward of a negative amount, rejected message rewards,
\* get_user_stats, and xp_for_next_level at every level.
StatsLevels == { 2, 8, 14, 15 }
StatsRewards ==
  { << XP_PER_MESSAGE, "message" >>, << -1, "reaction" >>, << 30000, "support" >> }
    \cup { << LEVEL_THRESHOLDS[i], "invite" >> : i \in StatsLevels }
StatsClockSteps == { cooldown_seconds }

NextStats ==
  \/ \E d \in StatsClockSteps : ticks < MaxTicks /\ Tick(d)
  \/ \E u \in Senders, r \in StatsRewards :
        /\ reward(u, r[1], r[2])
        /\ EntryCount(xp', DOMAIN xp'.user_xp) <= MaxStats
  \/ \E u \in Senders : user_stats(u)
  \/ \E l \in 1..Len(LEVEL_THRESHOLDS) : xp_needed(l)

SpecStats == InitXP /\ [][NextStats]_vars

\* C32: every stored level lies in 1..15 however large the total grows, and
\* the XP to the next level that get_user_stats reports is finite and
\* positive at the levels 1..14 and infinite at level 15.
C32_LevelsBounded ==
  /\ \A u \in DOMAIN xp.user_levels : xp.user_levels[u] \in 1..15
  /\ last.op = "get_user_stats" =>
        /\ last.result.level \in 1..15
        /\ last.result.level <= 14 =>
              last.result.xp_to_next.finite /\ last.result.xp_to_next.value > 0
        /\ last.result.level = 15 => ~last.result.xp_to_next.finite
  /\ last.op = "xp_for_next_level" =>
        /\ last.result.current_level \in 1..14 =>
              last.result.xp_needed.finite /\ last.result.xp_needed.value > 0
        /\ last.result.current_level = 15 => ~last.result.xp_needed.finite

C32_Witness ==
  /\ last.op = "get_user_stats"
  /\ last.result.total_xp > 2 * LEVEL_THRESHOLDS[15]
  /\ last.result.level = 15
  /\ ~last.result.xp_to_next.finite

C34_WarnBelowHalf ==
  /\ \A i \in 1..Len(action_log) :
        action_log[i].kind = "warn" =>
          action_log[i].strike_count < moderation.strike_threshold \div 2
  /\ moderation.strike_threshold <= 3 =>
        /\ \A i \in 1..Len(action_log) : action_log[i].kind # "warn"
        /\ \A u \in DOMAIN moderation.user_records :
              moderation.user_records[u].warnings = 0

C34_Witness ==
  /\ last.op = "message_handler" /\ last.outcome = "violation"
  /\ last.branch = "warn" /\ last.raised = "none"
  /\ moderation.user_records[last.user].warnings = 1
  /\ Len(moderation.user_records[last.user].strikes) = 1
  /\ moderation.strike_threshold = 4

\* SpecSequential, the message path with one event handled at a time and
\* platform calls that always succeed: group messages of two senders under
\* the default strike_threshold, and a clock that steps past the mute.
NextSequential ==
  \/ \E d \in ClockSteps : ticks < MaxTicks /\ Tick(d)
  \/ \E u \in Users, t \in MessageTexts :
        /\ message_handler(u, 1, t, FALSE)
        /\ last'.outcome \in { "violation", "error" } => last'.raised = "none"
        /\ EntryCount(xp', DOMAIN xp'.user_xp) <= MaxRewards

SpecSequential == InitXP /\ [][NextSequential]_vars

\* C35: with one event handled at a time, the default strike_threshold 3 and
\* platform calls that always succeed, every user has at most one strike: the
\* first violation mutes or bans the user, and message_handler ignores the
\* user from then on.
C35_AtMostOneStrike ==
  \A u \in DOMAIN moderation.user_records :
     /\ Len(moderation.user_records[u].strikes) <= 1
     /\ moderation.user_records[u].is_muted \/ moderation.user_records[u].is_banned

C35_Witness ==
  /\ last.op = "message_handler" /\ last.outcome = "silenced"
  /\ check_message(moderation, last.user, last.input, now) # None
  /\ moderation.user_records[last.user].is_muted
  /\ now > moderation.user_records[last.user].mute_expires
  /\ Len(moderation.user_records[last.user].strikes) = 1

\* C36: a group message of a user whose record has is_banned or is_muted set
\* leaves the moderation state (strikes, warnings, flags, violation_log) and
\* the progression state (XP history, totals, levels, message cooldowns)
\* unchanged, whatever its text.
C36_SilencedChangesNothing ==
  [][ ( /\ GroupMessageStep
        /\ last'.user \in DOMAIN moderation.user_records
        /\ \/ moderation.user_records[last'.user].is_banned
           \/ moderation.user_records[last'.user].is_muted )
      => /\ moderation' = moderation
         /\ xp' = xp
         /\ action_log' = action_log ]_vars

C36_Witness ==
  /\ last.op = "message_handler" /\ last.outcome = "silenced"
  /\ last.input = HelloText
  /\ moderation.user_records[last.user].is_banned
  /\ ~moderation.user_records[last.user].is_muted

\* C37: while anti_raid_enabled is false, check_raid returns false for every
\* join and leaves the window of join timestamps unchanged, so that no join
\* seen while detection is disabled is in the window.
C37_DisabledKeepsWindow ==
  [][ ( /\ last'.op = "chat_action_handler"
        /\ last'.outcome \in { "joined", "aborted" }
        /\ ~moderation.anti_raid_enabled )
      => /\ ~last'.result.raid
         /\ moderation'.join_timestamps = moderation.join_timestamps
         /\ moderation'.join_timestamps = <<>> ]_vars

C37_Witness ==
  /\ ~moderation.anti_raid_enabled
  /\ last.op = "chat_action_handler" /\ last.outcome = "joined"
  /\ ~last.result.raid
  /\ Len(xp.user_xp[last.user]) >= raid_threshold
  /\ now - xp.user_xp[last.user][1].timestamp < RaidWindow
  /\ moderation.join_timestamps = <<>>

\* the sum of the amounts of a history
RECURSIVE SumAmounts(_)
SumAmounts(entries) ==
  IF entries = <<>> THEN 0
  ELSE Head(entries).amount + SumAmounts(Tail(entries))

\* C38: each user's total_xp is the sum of the amounts of the entries of that
\* user's XP history, and the history gains exactly one entry, with the
\* amount of the call, per accepted add_xp call and none per rejected one.
C38_TotalIsSumOfEntries ==
  [][ /\ DOMAIN xp'.user_totals = DOMAIN xp'.user_xp
      /\ \A u \in DOMAIN xp'.user_totals :
            xp'.user_totals[u] = SumAmounts(xp'.user_xp[u])
      /\ last'.op = "add_xp" =>
            LET before == Get(xp.user_xp, last'.user, <<>>) IN
            IF last'.outcome = "rewarded"
            THEN /\ Len(xp'.user_xp[last'.user]) = Len(before) + 1
                 /\ SubSeq(xp'.user_xp[last'.user], 1, Len(before)) = before
                 /\ xp'.user_totals[last'.user] - Get(xp.user_totals, last'.user, 0)
                      = xp'.user_xp[last'.user][Len(before) + 1].amount
                 /\ \A v \in DOMAIN xp.user_xp \ { last'.user } :
                       xp'.user_xp[v] = xp.user_xp[v]
            ELSE xp'.user_xp = xp.user_xp /\ xp'.user_totals = xp.user_totals ]_vars

C38_Witness ==
  /\ last.op = "add_xp" /\ last.outcome = "cooldown"
  /\ Len(xp.user_xp[last.user]) = 2
  /\ xp.user_xp[last.user][2].amount < 0
  /\ xp.user_totals[last.user] = SumAmounts(xp.user_xp[last.user])

\* the place of a user in the insertion order of user_totals
KeyIndex(x, user_id) == CHOOSE i \in 1..Len(x.keys) : x.keys[i] = user_id

\* C39: get_leaderboard is deterministic on ties: users of equal total_xp are
\* ranked in the order in which they first received XP, the insertion order of
\* user_totals, which later rewards of a user do not change; two calls on the
\* same state return the same ranking, the shorter one a prefix of the longer.
C39_TiesInInsertionOrder ==
  [][ /\ (last'.op = "add_xp" /\ last'.outcome = "rewarded") =>
            xp'.keys = IF last'.user \in DOMAIN xp.user_totals
                       THEN xp.keys ELSE Append(xp.keys, last'.user)
      /\ last'.op = "get_leaderboard" =>
            LET entries == last'.result.entries IN
            /\ \A i, j \in 1..Len(entries) :
                  (i < j /\ entries[i].xp = entries[j].xp) =>
                     KeyIndex(xp, entries[i].user_id) < KeyIndex(xp, entries[j].user_id)
            /\ last.op = "get_leaderboard" =>
                  LET n == Min(Len(entries), Len(last.result.entries)) IN
                  SubSeq(entries, 1, n) = SubSeq(last.result.entries, 1, n) ]_vars

C39_Witness ==
  /\ last.op = "get_leaderboard"
  /\ Len(last.result.entries) >= 2
  /\ last.result.entries[1].xp = last.result.entries[2].xp
  /\ last.result.entries[1].user_id > last.result.entries[2].user_id
  /\ Len(xp.user_xp[last.result.entries[1].user_id]) = 2

\* SpecTickets, the TicketHandler alone: tickets of three users, two of them
\* with ids that agree modulo 10000, created within one second and one
\* cooldown apart, and closed by id.
TicketUsers == { 1, 2, TicketModulus + 1 }
TicketClockSteps == { cooldown_minutes * 60 }
HelpText == <<"h","e","l","p">>

NextTickets ==
  \/ \E d \in TicketClockSteps : ticks < MaxTickets /\ Tick(d)
  \/ \E u \in TicketUsers :
        support(u, 1, HelpText) /\ Len(tickets'.objects) <= MaxTickets
  \/ \E i \in 1..Len(tickets.objects) : close(tickets.objects[i].id)

SpecTickets == InitXP /\ [][NextTickets]_vars

\* C40: over any sequence of create_ticket and close_ticket calls by any
\* users, a ticket stored in user_tickets has status "open" exactly when it is
\* the value held in open_tickets under its id.
C40_IndexConsistent ==
  \A u \in DOMAIN tickets.user_tickets :
     \A i \in 1..Len(tickets.user_tickets[u]) :
        LET ref == tickets.user_tickets[u][i]
            ticket == tickets.objects[ref]
        IN ticket.status = "open" <=>
              /\ ticket.id \in DOMAIN tickets.open_tickets
              /\ tickets.open_tickets[ticket.id] = ref

====
